---- MODULE Spec2Model ----
(***************************************************************************)
(* A model of the golf GELF client (src/client.go): the Client state, the   *)
(* Dial / QueueMsg / Close operations and the two background goroutines     *)
(* queueReceiver (Intake worker) and msgSender (Dispatcher).                *)
(*                                                                         *)
(* Goroutines are modelled one statement (or one critical-section step)    *)
(* per action.  The two control channels queueCtl and sendCtl are           *)
(* unbuffered, so every send on them is a rendezvous: one joint action of   *)
(* the sender and the receiver.  msgChan is a buffered channel, modelled    *)
(* as a sequence of at most MsgChanCap messages.                            *)
(***************************************************************************)
EXTENDS Integers, Sequences, FiniteSets, TLC

(* ---------------------------------------------------------------- bounds *)
\* Number of messages callers hand to QueueMsg in one behaviour.
MaxMsgs == 2
\* Number of goroutines calling QueueMsg concurrently.
NumCallers == 2
\* Capacity of the intake channel; stands for make(chan *Message, 500).
MsgChanCap == 1
\* Number of Dial calls in one behaviour.
MaxDials == 2
\* Largest reading of the wall clock.
MaxClock == 2

(* ------------------------------------------------------------- constants *)
COMP_NONE == 0
COMP_GZIP == 1
COMP_ZLIB == 2
\* Values exchanged on queueCtl / sendCtl.
CONTINUE_REQUEST == 1
ACKNOWLEDGED == 2
\* Smallest frame size the ChunkEncoder accepts (chunk header overhead).
ChunkHeaderLen == 12
DefaultChunkSize == 1420

Nil == "nil"
\* A nil msg.Timestamp.
NoTime == -1
\* A nil *Message.
NoMsg == 0
Open == "open"
\* writeMsg's gz / zz before the pool's Get
NoComp == "none"
Free == "free"

Msgs == 1..MaxMsgs
Callers == 1..NumCallers
\* Timestamps a caller may have set on a message before QueueMsg.
PresetTimes == {0}
ChunkSizes == {0, DefaultChunkSize}
Compressions == {COMP_NONE, COMP_GZIP, COMP_ZLIB}
Schemes == {"udp", "tcp", "http"}
CompressParams == {"", "none", "zlib", "gzip", "lz4"}
\* A URI as Dial sees it: does url.Parse accept it, its scheme, the value of
\* its compress query parameter ("" when absent), and whether net.Dial to it
\* succeeds.
Uris == [parses : BOOLEAN, scheme : Schemes, compress : CompressParams, reachable : BOOLEAN]
\* No Dial is running.
NoUri == [parses |-> FALSE, scheme |-> "", compress |-> "", reachable |-> FALSE]
\* The URIs that carry no compress parameter.
PlainUris == {u \in Uris : u.compress = ""}

VARIABLES
    conn,        \* c.conn: Nil or Open
    config,      \* c.config: [ChunkSize, Compression]
    queue,       \* c.queue: the backing queue
    queueMutex,  \* c.queueMutex: Free, or the goroutine holding it
    msgChan,     \* c.msgChan: contents of the buffered intake channel
    mainPc,      \* position of the goroutine that calls Dial and Close
    closeVal,    \* the value Close is about to send (1, then quitVal)
    recvPc,      \* position of queueReceiver
    recvMsg,     \* queueReceiver's msg
    recvQuit,    \* queueReceiver's quitVal, then the value it replies
    sendPc,      \* position of msgSender
    sendMsg,     \* msgSender's msg
    sendQuit,    \* msgSender's quitVal, then the value it replies
    callPc,      \* position of each QueueMsg caller
    callMsg,     \* the message each caller is queueing
    msgTs,       \* msg.Timestamp of every message
    nextMsg,     \* next fresh message
    clock,       \* time.Now()
    \* history variables
    callStart,   \* clock reading when QueueMsg was called for a message
    serializedAt,\* clock reading when generateMsgJson ran for a message
    presetTs,    \* the timestamp the caller had set (NoTime if none)
    accepted,    \* messages in the order their sends on msgChan completed
    popped,      \* messages in the order msgSender popped them
    written,     \* messages in the order writeMsg returned for them
    dropped,     \* messages whose serialization failed
    dialed,      \* the last Dial succeeded and Close was not called since
    nDials,      \* Dial calls so far
    dialUri,     \* the uri argument of the running Dial (NoUri outside Dial)
    dialParam,   \* the compress query value of the last Dial that ran
    dialRet,     \* what the last returned Dial returned
    closeRet,    \* what the last returned Close returned
    closeSnap,   \* messages accepted when the running Close was invoked
    acked,       \* workers the running Close has observed ACKNOWLEDGED from
    gz,          \* c.gz: the idle gzip writers of the pool, by state
    zz,          \* c.zz: the idle zlib writers of the pool, by state
    heldComp,    \* the writer writeMsg took from a pool (NoComp if none)
    chnkLog      \* history: what c.chnk was asked to do, for which message

vars == << conn, config, queue, queueMutex, msgChan, mainPc, closeVal,
           recvPc, recvMsg, recvQuit, sendPc, sendMsg, sendQuit,
           callPc, callMsg, msgTs, nextMsg, clock,
           callStart, serializedAt, presetTs, accepted, popped, written,
           dropped, dialed, nDials, dialUri, dialParam, dialRet, closeRet,
           closeSnap, acked, gz, zz, heldComp, chnkLog >>

clientVars == << conn, config >>
queueVars == << queue, queueMutex, msgChan >>
mainVars == << mainPc, closeVal >>
recvVars == << recvPc, recvMsg, recvQuit >>
sendVars == << sendPc, sendMsg, sendQuit >>
callVars == << callPc, callMsg, msgTs, nextMsg, callStart, presetTs >>
closeHist == << dialed, nDials, dialUri, dialParam, dialRet, closeRet, closeSnap,
               acked >>
dispHist == << popped, written, dropped, serializedAt >>
poolVars == << gz, zz >>
writeVars == << poolVars, heldComp, chnkLog >>

(* ------------------------------------------------------------------ Init *)
\* NewClientWithConfig(cc) for a cc of configs: an inert client.
InitWith(configs) ==
    /\ conn = Nil
    /\ config \in configs
    /\ queue = << >>
    /\ queueMutex = Free
    /\ msgChan = << >>
    /\ mainPc = "idle"
    /\ closeVal = CONTINUE_REQUEST
    /\ recvPc = "stopped"
    /\ recvMsg = NoMsg
    /\ recvQuit = 0
    /\ sendPc = "stopped"
    /\ sendMsg = NoMsg
    /\ sendQuit = 0
    /\ callPc = [p \in Callers |-> "idle"]
    /\ callMsg = [p \in Callers |-> NoMsg]
    /\ msgTs = [m \in Msgs |-> NoTime]
    /\ nextMsg = 1
    /\ clock = 1
    /\ callStart = [m \in Msgs |-> 0]
    /\ serializedAt = [m \in Msgs |-> 0]
    /\ presetTs = [m \in Msgs |-> NoTime]
    /\ accepted = << >>
    /\ popped = << >>
    /\ written = << >>
    /\ dropped = {}
    /\ dialed = FALSE
    /\ nDials = 0
    /\ dialUri = NoUri
    /\ dialParam = ""
    /\ dialRet = "none"
    /\ closeRet = "none"
    /\ closeSnap = {}
    /\ acked = {}
    /\ gz = << >>
    /\ zz = << >>
    /\ heldComp = NoComp
    /\ chnkLog = << >>

\* NewClient(): the default configuration.
DefaultConfig == [ChunkSize |-> DefaultChunkSize, Compression |-> COMP_GZIP]
Configs == [ChunkSize : ChunkSizes, Compression : Compressions]

Range(s) == {s[i] : i \in 1..Len(s)}

(* ------------------------------------------------------------------ Dial *)
\* A Dial that takes an unrecognized compress value for "none".
DialCompressionLoose(param, configured) ==
    CASE param = "zlib" -> COMP_ZLIB
      [] param = "gzip" -> COMP_GZIP
      [] param = "" -> configured
      [] OTHER -> COMP_NONE

\* The switch on the compress query value: the compression Dial leaves
\* configured.
DialCompression(param, configured) ==
    CASE param = "none" -> COMP_NONE
      [] param = "zlib" -> COMP_ZLIB
      [] param = "gzip" -> COMP_GZIP
      [] OTHER -> configured

\* The switch on the scheme.
SchemeSupported(scheme) == scheme \in {"udp", "tcp"}

\* newChunker rejects a frame size that is non-positive or cannot hold the
\* chunk header.
NewChunkerFails(chunkSize) == chunkSize <= 0 \/ chunkSize < ChunkHeaderLen

\* How far Dial gets on uri u: the step at which it returns an error, or "ok".
DialOutcome(u, chunkSize) ==
    CASE ~u.parses -> "parse"
      [] ~SchemeSupported(u.scheme) -> "scheme"
      [] ~u.reachable -> "net"
      [] NewChunkerFails(chunkSize) -> "chunker"
      [] OTHER -> "ok"

\* c.gz = &sync.Pool{New: ...}: a pool with no idle writer yet.
NewPool == << >>

\* A caller invokes Dial(uri) on a client it has not connected.
DialCall(u) ==
    /\ mainPc = "idle"
    /\ ~dialed
    /\ nDials < MaxDials
    /\ mainPc' = "dial"
    /\ dialUri' = u
    /\ dialRet' = "none"
    /\ nDials' = nDials + 1
    /\ UNCHANGED << writeVars, clientVars, dialParam, queueVars, closeVal, recvVars, sendVars, callVars,
                    clock, accepted, dispHist, dialed, closeRet, closeSnap, acked >>

\* The body of Dial.  Until its two go statements Dial shares no state with
\* a running goroutine (the workers of an earlier Dial have returned, QueueMsg
\* touches msgChan only), so it is one step.
Dial ==
    /\ mainPc = "dial"
    /\ LET out == DialOutcome(dialUri, config.ChunkSize)
           pastSwitch == out \in {"net", "chunker", "ok"}
       IN /\ config' = IF pastSwitch
                          THEN [config EXCEPT !.Compression =
                                   DialCompression(dialUri.compress, @)]
                          ELSE config
          /\ conn' = IF out \in {"chunker", "ok"} THEN Open ELSE conn
          /\ recvPc' = IF out = "ok" THEN "select" ELSE recvPc
          /\ sendPc' = IF out = "ok" THEN "lock" ELSE sendPc
          /\ dialRet' = IF out = "ok" THEN "ok" ELSE "err"
          /\ dialed' = (out = "ok")
          /\ sendMsg' = IF out = "ok" THEN NoMsg ELSE sendMsg
          /\ gz' = IF out = "ok" THEN NewPool ELSE gz
          /\ zz' = IF out = "ok" THEN NewPool ELSE zz
    /\ mainPc' = "idle"
    /\ dialUri' = NoUri
    /\ dialParam' = dialUri.compress
    /\ UNCHANGED << heldComp, chnkLog, queueVars, closeVal, recvMsg, recvQuit, sendQuit,
                    callVars, clock, accepted, dispHist, nDials, closeRet,
                    closeSnap, acked >>

(* ----------------------------------------------------------------- Close *)
\* A Close without its early return.
CloseIsInertNever(c) == FALSE

\* A Close that takes its early return whatever c.conn is.
CloseIsInertAlways(c) == TRUE

\* if c.conn == nil: already shut down, Close has nothing to do.
CloseIsInert(c) == c = Nil

\* A Close that takes any reply for an acknowledgement.
CloseObservedAckAny(quitVal) == TRUE

\* The test Close makes of each value it receives.
CloseObservedAck(quitVal) == quitVal = ACKNOWLEDGED

\* c.conn after conn.Close() returned: cleared unless it returned an error.
ConnAfterClose(closeFailed, c) == IF closeFailed THEN c ELSE Nil

\* A caller invokes Close.
CloseCall ==
    /\ mainPc = "idle"
    /\ mainPc' = "c_check"
    /\ closeRet' = "none"
    /\ dialed' = FALSE
    /\ closeSnap' = Range(accepted)
    /\ acked' = {}
    /\ UNCHANGED << writeVars, clientVars, queueVars, closeVal, recvVars, sendVars, callVars,
                    clock, accepted, dispHist, nDials, dialUri, dialParam,
                    dialRet >>

\* if c.conn == nil { return nil }; otherwise go on to c.queueCtl <- 1.
CloseCheck ==
    /\ mainPc = "c_check"
    /\ IF CloseIsInert(conn)
          THEN /\ mainPc' = "idle"
               /\ closeRet' = "ok"
               /\ UNCHANGED closeVal
          ELSE /\ mainPc' = "c_qsend"
               /\ closeVal' = CONTINUE_REQUEST
               /\ UNCHANGED closeRet
    /\ UNCHANGED << writeVars, clientVars, queueVars, recvVars, sendVars, callVars, clock,
                    accepted, dispHist, dialed, nDials, dialUri, dialParam,
                    dialRet,
                    closeSnap, acked >>

\* c.queueCtl <- v in Close meets quitVal := <-c.queueCtl in queueReceiver's
\* select.
CloseSendQueueCtl ==
    /\ mainPc = "c_qsend"
    /\ recvPc = "select"
    /\ mainPc' = "c_qrecv"
    /\ recvPc' = "ctl"
    /\ recvQuit' = closeVal
    /\ UNCHANGED << writeVars, clientVars, queueVars, closeVal, recvMsg, sendVars, callVars,
                    clock, accepted, dispHist, closeHist >>

\* quitVal := <-c.queueCtl in Close meets queueReceiver's reply
\* (c.queueCtl <- 1; continue, or c.queueCtl <- 2; return).
CloseRecvQueueCtl ==
    /\ mainPc = "c_qrecv"
    /\ recvPc = "reply"
    /\ recvPc' = IF recvQuit = ACKNOWLEDGED THEN "stopped" ELSE "select"
    /\ IF CloseObservedAck(recvQuit)
          THEN /\ mainPc' = "c_ssend"
               /\ closeVal' = CONTINUE_REQUEST
               /\ acked' = acked \cup {"recv"}
          ELSE /\ mainPc' = "c_qsend"
               /\ closeVal' = recvQuit
               /\ UNCHANGED acked
    /\ UNCHANGED << writeVars, clientVars, queueVars, recvMsg, recvQuit, sendVars, callVars,
                    clock, accepted, dispHist, dialed, nDials, dialUri, dialParam,
                    dialRet,
                    closeRet, closeSnap >>

\* c.sendCtl <- v in Close meets quitVal := <-c.sendCtl in msgSender's select.
CloseSendSendCtl ==
    /\ mainPc = "c_ssend"
    /\ sendPc = "select"
    /\ mainPc' = "c_srecv"
    /\ sendPc' = "ctl"
    /\ sendQuit' = closeVal
    /\ UNCHANGED << writeVars, clientVars, queueVars, closeVal, recvVars, sendMsg, callVars,
                    clock, accepted, dispHist, closeHist >>

\* quitVal := <-c.sendCtl in Close meets msgSender's reply.
CloseRecvSendCtl ==
    /\ mainPc = "c_srecv"
    /\ sendPc = "reply"
    /\ sendPc' = IF sendQuit = ACKNOWLEDGED THEN "stopped" ELSE "lock"
    /\ IF CloseObservedAck(sendQuit)
          THEN /\ mainPc' = "c_connclose"
               /\ acked' = acked \cup {"send"}
               /\ UNCHANGED closeVal
          ELSE /\ mainPc' = "c_ssend"
               /\ closeVal' = sendQuit
               /\ UNCHANGED acked
    /\ UNCHANGED << writeVars, clientVars, queueVars, recvVars, sendMsg, sendQuit, callVars,
                    clock, accepted, dispHist, dialed, nDials, dialUri, dialParam,
                    dialRet,
                    closeRet, closeSnap >>

\* err := c.conn.Close(); if err != nil { return err }; c.conn = nil; return nil
CloseConn(closeFailed) ==
    /\ mainPc = "c_connclose"
    /\ conn' = ConnAfterClose(closeFailed, conn)
    /\ closeRet' = IF closeFailed THEN "err" ELSE "ok"
    /\ mainPc' = "idle"
    /\ closeSnap' = {}
    /\ UNCHANGED << writeVars, config, queueVars, closeVal, recvVars, sendVars, callVars,
                    clock, accepted, dispHist, dialed, nDials, dialUri, dialParam,
                    dialRet,
                    acked >>

(* -------------------------------------------------------------- QueueMsg *)
\* A QueueMsg that leaves a nil Timestamp alone.
StampTimeKeepNil(ts, now) == ts

\* if msg.Timestamp == nil { curTime := time.Now(); msg.Timestamp = &curTime }
StampTime(ts, now) == IF ts = NoTime THEN now ELSE ts

\* An intake channel that blocks one message early.
ChanHasRoomOffByOne(ch) == Len(ch) + 1 < MsgChanCap

\* A send on the buffered msgChan proceeds iff the buffer has room.
ChanHasRoom(ch) == Len(ch) < MsgChanCap

\* A caller invokes QueueMsg(msg) with a fresh message whose Timestamp is ts.
QueueMsgCall(p, ts) ==
    /\ callPc[p] = "idle"
    /\ nextMsg <= MaxMsgs
    /\ callPc' = [callPc EXCEPT ![p] = "stamp"]
    /\ callMsg' = [callMsg EXCEPT ![p] = nextMsg]
    /\ msgTs' = [msgTs EXCEPT ![nextMsg] = ts]
    /\ presetTs' = [presetTs EXCEPT ![nextMsg] = ts]
    /\ callStart' = [callStart EXCEPT ![nextMsg] = clock]
    /\ nextMsg' = nextMsg + 1
    /\ UNCHANGED << writeVars, clientVars, queueVars, mainVars, recvVars, sendVars, clock,
                    accepted, dispHist, closeHist >>

QueueMsgStamp(p) ==
    /\ callPc[p] = "stamp"
    /\ msgTs' = [msgTs EXCEPT ![callMsg[p]] = StampTime(@, clock)]
    /\ callPc' = [callPc EXCEPT ![p] = "send"]
    /\ UNCHANGED << writeVars, clientVars, queueVars, mainVars, recvVars, sendVars, callMsg,
                    nextMsg, callStart, presetTs, clock, accepted, dispHist,
                    closeHist >>

\* c.msgChan <- msg; return nil
QueueMsgSend(p) ==
    /\ callPc[p] = "send"
    /\ ChanHasRoom(msgChan)
    /\ msgChan' = Append(msgChan, callMsg[p])
    /\ accepted' = Append(accepted, callMsg[p])
    /\ callPc' = [callPc EXCEPT ![p] = "idle"]
    /\ callMsg' = [callMsg EXCEPT ![p] = NoMsg]
    /\ UNCHANGED << writeVars, clientVars, queue, queueMutex, mainVars, recvVars, sendVars,
                    msgTs, nextMsg, callStart, presetTs, clock, dispHist,
                    closeHist >>

(* --------------------------------------------------------- backing queue *)
\* An append that forgets the message.
QueuePushDrop(q, m) == q

\* An append at the wrong end of the backing queue.
QueuePushFront(q, m) == << m >> \o q

\* c.queue = append(c.queue, msg)
QueuePush(q, m) == Append(q, m)
\* msg, c.queue = c.queue[0], c.queue[1:]
\* A pop that empties the queue.
QueueRestNone(q) == << >>

QueueFront(q) == Head(q)
QueueRest(q) == Tail(q)

\* A mutex that lets a second goroutine in.
CanLockAlways(m) == TRUE

\* c.queueMutex.Lock() returns only once the mutex is unlocked.
CanLock(m) == m = Free

(* --------------------------------------------------------- queueReceiver *)
\* An Intake worker that acknowledges without looking at msgChan, and one
\* that never acknowledges.
IntakeReplyAlwaysAck(depth) == ACKNOWLEDGED
IntakeReplyNeverAck(depth) == CONTINUE_REQUEST

\* What queueReceiver answers to a stop request, given len(c.msgChan).
IntakeReply(depth) == IF depth > 0 THEN CONTINUE_REQUEST ELSE ACKNOWLEDGED

\* case msg := <-c.msgChan
RecvMsg ==
    /\ recvPc = "select"
    /\ Len(msgChan) > 0
    /\ recvMsg' = Head(msgChan)
    /\ msgChan' = Tail(msgChan)
    /\ recvPc' = "lock"
    /\ UNCHANGED << writeVars, clientVars, queue, queueMutex, mainVars, recvQuit, sendVars,
                    callVars, clock, accepted, dispHist, closeHist >>

\* c.queueMutex.Lock()
RecvLock ==
    /\ recvPc = "lock"
    /\ CanLock(queueMutex)
    /\ queueMutex' = "recv"
    /\ recvPc' = "append"
    /\ UNCHANGED << writeVars, clientVars, queue, msgChan, mainVars, recvMsg, recvQuit,
                    sendVars, callVars, clock, accepted, dispHist, closeHist >>

\* c.queue = append(c.queue, msg)
RecvAppend ==
    /\ recvPc = "append"
    /\ queue' = QueuePush(queue, recvMsg)
    /\ recvPc' = "unlock"
    /\ UNCHANGED << writeVars, clientVars, queueMutex, msgChan, mainVars, recvMsg, recvQuit,
                    sendVars, callVars, clock, accepted, dispHist, closeHist >>

\* c.queueMutex.Unlock()
RecvUnlock ==
    /\ recvPc = "unlock"
    /\ queueMutex' = Free
    /\ recvMsg' = NoMsg
    /\ recvPc' = "select"
    /\ UNCHANGED << writeVars, clientVars, queue, msgChan, mainVars, recvQuit, sendVars,
                    callVars, clock, accepted, dispHist, closeHist >>

\* if quitVal == 1 { if len(c.msgChan) > 0 { reply 1 } else { reply 2 } }
RecvCtl ==
    /\ recvPc = "ctl"
    /\ IF recvQuit = CONTINUE_REQUEST
          THEN /\ recvQuit' = IntakeReply(Len(msgChan))
               /\ recvPc' = "reply"
          ELSE /\ recvPc' = "select"
               /\ UNCHANGED recvQuit
    /\ UNCHANGED << writeVars, clientVars, queueVars, mainVars, recvMsg, sendVars, callVars,
                    clock, accepted, dispHist, closeHist >>

(* ------------------------------------------------------------- msgSender *)
\* A Dispatcher that acknowledges without looking at the backing queue.
SenderReplyAlwaysAck(depth) == ACKNOWLEDGED

\* A Dispatcher that reads its stop test the wrong way round.
SenderReplyInverted(depth) == IF depth > 0 THEN ACKNOWLEDGED ELSE CONTINUE_REQUEST

\* What msgSender answers to a stop request, given len(c.queue).
SenderReply(depth) == IF depth > 0 THEN CONTINUE_REQUEST ELSE ACKNOWLEDGED

\* c.queueMutex.Lock() at the top of the loop
SendLock ==
    /\ sendPc = "lock"
    /\ CanLock(queueMutex)
    /\ queueMutex' = "send"
    /\ sendPc' = "check"
    /\ UNCHANGED << writeVars, clientVars, queue, msgChan, mainVars, recvVars, sendMsg,
                    sendQuit, callVars, clock, accepted, dispHist, closeHist >>

\* A Dispatcher that goes idle with one message left in the queue.
SenderHasWorkBeyondOne(q) == Len(q) > 1

\* if len(c.queue) > 0
SenderHasWork(q) == Len(q) > 0

\* if len(c.queue) > 0 { msg, c.queue = c.queue[0], c.queue[1:] } else ...
SendCheck ==
    /\ sendPc = "check"
    /\ IF SenderHasWork(queue)
          THEN /\ sendMsg' = QueueFront(queue)
               /\ queue' = QueueRest(queue)
               /\ popped' = Append(popped, QueueFront(queue))
               /\ sendPc' = "unlock_pop"
          ELSE /\ sendPc' = "unlock_idle"
               /\ UNCHANGED << sendMsg, queue, popped >>
    /\ UNCHANGED << writeVars, clientVars, queueMutex, msgChan, mainVars, recvVars, sendQuit,
                    callVars, clock, accepted, written, dropped, serializedAt,
                    closeHist >>

\* c.queueMutex.Unlock() after the pop
SendUnlockPop ==
    /\ sendPc = "unlock_pop"
    /\ queueMutex' = Free
    /\ sendPc' = "json"
    /\ UNCHANGED << writeVars, clientVars, queue, msgChan, mainVars, recvVars, sendMsg,
                    sendQuit, callVars, clock, accepted, dispHist, closeHist >>

\* switch compression in writeMsg: the first statement of the chosen case.
WriteMsgEntry(compression) ==
    IF compression \in {COMP_GZIP, COMP_ZLIB} THEN "get" ELSE "raw"

\* A Dispatcher that, when serialization fails, tries the same message again.
AfterJsonRetry(failed, compression) ==
    IF failed THEN "json" ELSE WriteMsgEntry(compression)

\* if err != nil { continue }, else the call of writeMsg.
AfterJson(failed, compression) ==
    IF failed THEN "lock" ELSE WriteMsgEntry(compression)

\* data, err := generateMsgJson(msg); if err != nil { continue }
SendJson(failed) ==
    /\ sendPc = "json"
    /\ serializedAt' = [serializedAt EXCEPT ![sendMsg] = clock]
    /\ dropped' = IF failed THEN dropped \cup {sendMsg} ELSE dropped
    /\ sendPc' = AfterJson(failed, config.Compression)
    /\ UNCHANGED << writeVars, clientVars, queueVars, mainVars, recvVars, sendMsg, sendQuit,
                    callVars, clock, accepted, popped, written, closeHist >>

\* A writeMsg that returns without putting the writer back.
WriteMsgNextNoPut(pc) ==
    CASE pc = "get" -> "compress"
      [] pc = "compress" -> "close"
      [] pc = "close" -> "reset"
      [] pc = "reset" -> "flush"
      [] pc = "put" -> "flush"
      [] pc = "raw" -> "flush"
      [] pc = "flush" -> "lock"

\* A writeMsg without its deferred Flush.
WriteMsgNextNoFlush(pc) ==
    CASE pc = "get" -> "compress"
      [] pc = "compress" -> "close"
      [] pc = "close" -> "reset"
      [] pc = "reset" -> "put"
      [] pc = "put" -> "lock"
      [] pc = "raw" -> "lock"
      [] pc = "flush" -> "lock"

\* The statement of writeMsg that follows statement pc: Get, Write, Close,
\* Reset, Put on the compressed paths, chnk.Write on the default path, then
\* the deferred chnk.Flush, then the return into msgSender's loop.
WriteMsgNext(pc) ==
    CASE pc = "get" -> "compress"
      [] pc = "compress" -> "close"
      [] pc = "close" -> "reset"
      [] pc = "reset" -> "put"
      [] pc = "put" -> "flush"
      [] pc = "raw" -> "flush"
      [] pc = "flush" -> "lock"

WritePcs == {"get", "compress", "close", "reset", "put", "raw", "flush"}

\* c.gz.Get() / c.zz.Get(): an idle writer of the pool, or a new one from
\* the pool's New, bound to c.chnk.
PoolGet(pool) == IF pool = << >> THEN "ready" ELSE Head(pool)
PoolAfterGet(pool) == IF pool = << >> THEN pool ELSE Tail(pool)
\* c.gz.Put(gz) / c.zz.Put(zz)
PoolPut(pool, comp) == Append(pool, comp)

\* What a statement of writeMsg asks of c.chnk for message m.
ChnkEvent(op, m, ok) == [op |-> op, msg |-> m, ok |-> ok]

\* One statement of err = c.writeMsg(data, c.conn, c.config.Compression).
\* failed: the transport rejects the frames that Flush emits; Flush runs
\* deferred, its result is discarded and writeMsg returns nil regardless.
WriteMsgStep(failed) ==
    /\ sendPc \in WritePcs
    /\ failed => sendPc = "flush"
    /\ LET useGz == config.Compression = COMP_GZIP
           pool == IF useGz THEN gz ELSE zz
           pool1 == CASE sendPc = "get" -> PoolAfterGet(pool)
                      [] sendPc = "put" -> PoolPut(pool, heldComp)
                      [] OTHER -> pool
       IN /\ gz' = IF useGz THEN pool1 ELSE gz
          /\ zz' = IF useGz THEN zz ELSE pool1
          /\ heldComp' = CASE sendPc = "get" -> PoolGet(pool)
                            [] sendPc = "compress" -> "written"
                            [] sendPc = "close" -> "closed"
                            [] sendPc = "reset" -> "ready"
                            [] sendPc = "put" -> NoComp
                            [] OTHER -> heldComp
    /\ chnkLog' = CASE sendPc \in {"compress", "raw"} ->
                           Append(chnkLog, ChnkEvent("write", sendMsg, TRUE))
                     [] sendPc = "close" ->
                           Append(chnkLog, ChnkEvent("close", sendMsg, TRUE))
                     [] sendPc = "flush" ->
                           Append(chnkLog, ChnkEvent("flush", sendMsg, ~failed))
                     [] OTHER -> chnkLog
    /\ sendPc' = WriteMsgNext(sendPc)
    /\ written' = IF sendPc' = "lock" THEN Append(written, sendMsg) ELSE written
    /\ UNCHANGED << clientVars, queueVars, mainVars, recvVars, sendMsg, sendQuit,
                    callVars, clock, accepted, popped, dropped, serializedAt,
                    closeHist >>

\* c.queueMutex.Unlock() in the else branch
SendUnlockIdle ==
    /\ sendPc = "unlock_idle"
    /\ queueMutex' = Free
    /\ sendPc' = "sleep"
    /\ UNCHANGED << writeVars, clientVars, queue, msgChan, mainVars, recvVars, sendMsg,
                    sendQuit, callVars, clock, accepted, dispHist, closeHist >>

\* time.Sleep(1 * time.Second)
SendSleep ==
    /\ sendPc = "sleep"
    /\ sendPc' = "select"
    /\ UNCHANGED << writeVars, clientVars, queueVars, mainVars, recvVars, sendMsg, sendQuit,
                    callVars, clock, accepted, dispHist, closeHist >>

\* select { ... default: }: taken when no sender waits on sendCtl
SendDefault ==
    /\ sendPc = "select"
    /\ mainPc # "c_ssend"
    /\ sendPc' = "lock"
    /\ UNCHANGED << writeVars, clientVars, queueVars, mainVars, recvVars, sendMsg, sendQuit,
                    callVars, clock, accepted, dispHist, closeHist >>

\* if quitVal == 1 { ... }: any other value falls out of the select
SendCtl ==
    /\ sendPc = "ctl"
    /\ sendPc' = IF sendQuit = CONTINUE_REQUEST THEN "lock2" ELSE "lock"
    /\ UNCHANGED << writeVars, clientVars, queueVars, mainVars, recvVars, sendMsg, sendQuit,
                    callVars, clock, accepted, dispHist, closeHist >>

\* c.queueMutex.Lock() inside the stop-request branch
SendLock2 ==
    /\ sendPc = "lock2"
    /\ CanLock(queueMutex)
    /\ queueMutex' = "send"
    /\ sendPc' = "check2"
    /\ UNCHANGED << writeVars, clientVars, queue, msgChan, mainVars, recvVars, sendMsg,
                    sendQuit, callVars, clock, accepted, dispHist, closeHist >>

\* if len(c.queue) > 0 { reply 1 } else { reply 2 }
SendCheck2 ==
    /\ sendPc = "check2"
    /\ sendQuit' = SenderReply(Len(queue))
    /\ sendPc' = "unlock2"
    /\ UNCHANGED << writeVars, clientVars, queueVars, mainVars, recvVars, sendMsg, callVars,
                    clock, accepted, dispHist, closeHist >>

\* c.queueMutex.Unlock() before the reply
SendUnlock2 ==
    /\ sendPc = "unlock2"
    /\ queueMutex' = Free
    /\ sendPc' = "reply"
    /\ UNCHANGED << writeVars, clientVars, queue, msgChan, mainVars, recvVars, sendMsg,
                    sendQuit, callVars, clock, accepted, dispHist, closeHist >>

(* ----------------------------------------------------------------- clock *)
Tick ==
    /\ clock < MaxClock
    /\ clock' = clock + 1
    /\ UNCHANGED << writeVars, clientVars, queueVars, mainVars, recvVars, sendVars, callVars,
                    accepted, dispHist, closeHist >>

(* ------------------------------------------------------- specifications *)
\* The goroutine that owns the client: Dial(u) for a u of uris, and Close.
Main(uris) ==
    \/ \E u \in uris : DialCall(u)
    \/ Dial
    \/ CloseCall
    \/ CloseCheck
    \/ CloseSendQueueCtl
    \/ CloseRecvQueueCtl
    \/ CloseSendSendCtl
    \/ CloseRecvSendCtl
    \/ \E closeFailed \in BOOLEAN : CloseConn(closeFailed)

\* The goroutines that call QueueMsg, with a Timestamp of stamps.
Caller(stamps) ==
    \/ \E p \in Callers, ts \in stamps : QueueMsgCall(p, ts)
    \/ \E p \in Callers : QueueMsgStamp(p)
    \/ \E p \in Callers : QueueMsgSend(p)

\* queueReceiver moving messages, and answering a stop request.
queueReceiverMove == RecvMsg \/ RecvLock \/ RecvAppend \/ RecvUnlock
queueReceiverStop == RecvCtl

\* msgSender polling the backing queue, dispatching a message, and
\* answering a stop request.
msgSenderPoll == SendLock \/ SendCheck \/ SendUnlockIdle \/ SendSleep \/ SendDefault
msgSenderDispatch ==
    \/ SendUnlockPop
    \/ \E failed \in BOOLEAN : SendJson(failed)
    \/ WriteMsgStep(FALSE)
msgSenderStop == SendCtl \/ SendLock2 \/ SendCheck2 \/ SendUnlock2

\* The delivery pipeline: a client built by NewClient() (or with a frame size
\* the ChunkEncoder rejects), dialed with URIs that leave the compression
\* alone, fed messages without a Timestamp, the clock standing still.
Init == InitWith({DefaultConfig, [DefaultConfig EXCEPT !.ChunkSize = 0]})

Next ==
    \/ Main(PlainUris)
    \/ Caller({NoTime})
    \/ queueReceiverMove
    \/ queueReceiverStop
    \/ msgSenderPoll
    \/ msgSenderDispatch
    \/ msgSenderStop

Spec == Init /\ [][Next]_vars

\* One life of a client, from its first Dial to the return of Close, under the
\* scheduling the Go runtime provides: a goroutine that can take a step
\* eventually takes one (weak fairness of each goroutine); a select whose
\* msgChan case is ready again and again eventually picks it, since select
\* chooses among its ready cases at random (strong fairness of RecvMsg); and
\* a goroutine waiting in Lock gets the mutex if it is released again and
\* again, since sync.Mutex hands it to a starved waiter (strong fairness of
\* the Lock steps).
CloseSteps ==
    \/ CloseCheck
    \/ CloseSendQueueCtl
    \/ CloseRecvQueueCtl
    \/ CloseSendSendCtl
    \/ CloseRecvSendCtl
    \/ \E closeFailed \in BOOLEAN : CloseConn(closeFailed)

\* The first Dial on the client.
DialOnce == nDials = 0 /\ \E u \in PlainUris : DialCall(u)

NextOnce ==
    \/ DialOnce
    \/ Dial
    \/ CloseCall
    \/ CloseSteps
    \/ Caller({NoTime})
    \/ queueReceiverMove
    \/ queueReceiverStop
    \/ msgSenderPoll
    \/ msgSenderDispatch
    \/ msgSenderStop

FairSpec ==
    /\ Init
    /\ [][NextOnce]_vars
    /\ WF_vars(CloseSteps)
    /\ WF_vars(queueReceiverMove \/ queueReceiverStop)
    /\ SF_vars(RecvMsg)
    /\ SF_vars(RecvLock)
    /\ SF_vars(SendLock)
    /\ SF_vars(SendLock2)
    /\ WF_vars(msgSenderPoll \/ msgSenderDispatch \/ msgSenderStop)

\* Dial and Close on a client nobody queues messages on, for every
\* configuration and every URI.
InitDial == InitWith(Configs)

NextDial ==
    \/ Main(Uris)
    \/ queueReceiverStop
    \/ msgSenderPoll
    \/ msgSenderStop

SpecDial == InitDial /\ [][NextDial]_vars

\* Timestamps: a client dialed once and not closed, callers that set a
\* Timestamp or leave it nil, and a clock that advances.
GoodUris == {u \in PlainUris : DialOutcome(u, DefaultChunkSize) = "ok"}

InitTime == InitWith({DefaultConfig})

NextTime ==
    \/ \E u \in GoodUris : DialCall(u)
    \/ Dial
    \/ Caller(PresetTimes \cup {NoTime})
    \/ queueReceiverMove
    \/ msgSenderPoll
    \/ msgSenderDispatch
    \/ Tick

SpecTime == InitTime /\ [][NextTime]_vars

\* Messages queued while the client is inert: QueueMsg runs only while no
\* worker exists and neither Dial nor Close is running; Dial and Close
\* alternate on a client built by NewClient(), every Dial finding its
\* endpoint and every conn.Close succeeding, under the scheduling of FairSpec.
ClientInert == recvPc = "stopped" /\ sendPc = "stopped" /\ mainPc = "idle"

NextInert ==
    \/ \E u \in GoodUris : DialCall(u)
    \/ Dial
    \/ CloseCall
    \/ CloseCheck
    \/ CloseSendQueueCtl
    \/ CloseRecvQueueCtl
    \/ CloseSendSendCtl
    \/ CloseRecvSendCtl
    \/ CloseConn(FALSE)
    \/ \E p \in Callers : ClientInert /\ QueueMsgCall(p, NoTime)
    \/ \E p \in Callers : ClientInert /\ QueueMsgStamp(p)
    \/ \E p \in Callers : ClientInert /\ QueueMsgSend(p)
    \/ queueReceiverMove
    \/ queueReceiverStop
    \/ msgSenderPoll
    \/ msgSenderDispatch
    \/ msgSenderStop

FairInert ==
    /\ InitTime
    /\ [][NextInert]_vars
    /\ WF_vars(CloseSteps)
    /\ WF_vars(queueReceiverMove \/ queueReceiverStop)
    /\ SF_vars(RecvMsg)
    /\ SF_vars(RecvLock)
    /\ SF_vars(SendLock)
    /\ SF_vars(SendLock2)
    /\ WF_vars(msgSenderPoll \/ msgSenderDispatch \/ msgSenderStop)

\* Dispatch on every compression path: a client configured for none, gzip or
\* zlib, dialed once and not closed, whose serializer and transport may fail.
InitWrite == InitWith({[DefaultConfig EXCEPT !.Compression = c] : c \in Compressions})

NextWrite ==
    \/ \E u \in GoodUris : DialCall(u)
    \/ Dial
    \/ Caller({NoTime})
    \/ queueReceiverMove
    \/ msgSenderPoll
    \/ SendUnlockPop
    \/ \E failed \in BOOLEAN : SendJson(failed)
    \/ \E failed \in BOOLEAN : WriteMsgStep(failed)

SpecWrite == InitWrite /\ [][NextWrite]_vars

(* ---------------------------------------------------------------- claims *)
\* The messages the Dispatcher is done with: handed to writeMsg, or dropped
\* because generateMsgJson failed.
Dispatched == Range(written) \cup dropped

\* The place of message m in sequence seq (0 when absent).
Pos(seq, m) == IF m \in Range(seq) THEN CHOOSE i \in 1..Len(seq) : seq[i] = m ELSE 0

IsPrefix(s, t) == Len(s) <= Len(t) /\ \A i \in 1..Len(s) : s[i] = t[i]

\* C1. No loss before Close: once Close on a dialed client has finished both
\* handshakes and is about to return, every message whose QueueMsg call had
\* completed when Close was invoked has been popped by the Dispatcher and
\* handed to writeMsg, unless its serialization failed.
NoLossBeforeClose ==
    mainPc = "c_connclose" =>
        \A m \in closeSnap : m \in Range(popped) /\ m \in Dispatched

\* Close is about to return after messages were queued before it was called,
\* all of them written.
NoLossBeforeCloseWitness ==
    /\ mainPc = "c_connclose"
    /\ Cardinality(closeSnap) = MaxMsgs
    /\ closeSnap \subseteq Range(written)

\* C2. FIFO delivery: the Dispatcher pops messages in exactly the order in
\* which their QueueMsg calls completed, and hands them to writeMsg in that
\* relative order.
FifoDelivery ==
    /\ IsPrefix(popped, accepted)
    /\ \A i, j \in 1..Len(written) :
          i < j => /\ Pos(accepted, written[i]) > 0
                   /\ Pos(accepted, written[i]) < Pos(accepted, written[j])

\* Two messages written whose QueueMsg calls completed in the opposite order
\* of their creation.
FifoDeliveryWitness ==
    /\ Len(written) >= 2
    /\ accepted[1] > accepted[2]

\* The state of the two workers and of everything they share with Close.
pipelineVars == << queueVars, closeVal, recvVars, sendVars >>

\* C3. Idempotent Close: Close on a client with no active connection (never
\* dialed, or closed successfully before) can always take its next step (it
\* does not block), and that step returns success without touching a control
\* channel, a worker or the connection; so it does on every such call, the
\* second in succession included.
IdempotentClose ==
    /\ []((mainPc = "c_check" /\ conn = Nil) => ENABLED CloseCheck)
    /\ [][(mainPc = "c_check" /\ conn = Nil /\ mainPc' # mainPc) =>
             /\ mainPc' = "idle"
             /\ closeRet' = "ok"
             /\ conn' = Nil
             /\ UNCHANGED pipelineVars]_vars

\* A Close that returned success at once, on a client whose last Dial
\* succeeded: an earlier Close has closed it.
IdempotentCloseWitness ==
    /\ mainPc = "idle"
    /\ closeRet = "ok"
    /\ acked = {}
    /\ dialRet = "ok"
    /\ conn = Nil

\* C4. After Close has returned, with or without an error, the client holds
\* no active connection.
ConnClearedAfterClose ==
    [][(mainPc = "c_connclose" /\ mainPc' = "idle") => conn' = Nil]_vars

\* C5. QueueMsg blocks only if the intake channel is full: a caller at its
\* send can complete it whenever msgChan holds fewer than MsgChanCap messages,
\* whatever the workers are doing, and the completed send has put the message
\* at the end of msgChan and recorded no loss.
QueueMsgBlocksOnlyWhenFull ==
    /\ [](\A p \in Callers :
            (callPc[p] = "send" /\ Len(msgChan) < MsgChanCap) => ENABLED QueueMsgSend(p))
    /\ [][\A p \in Callers :
            (callPc[p] = "send" /\ callPc'[p] = "idle") =>
                /\ Len(msgChan) < MsgChanCap
                /\ msgChan' = Append(msgChan, callMsg[p])]_vars

\* A message accepted by a client that was never dialed (no worker exists),
\* while another caller waits on the full channel.
QueueMsgBlocksOnlyWhenFullWitness ==
    /\ nDials = 0
    /\ Len(msgChan) = MsgChanCap
    /\ \E p \in Callers : callPc[p] = "send"

\* Positions of msgSender inside its stop-request branch.
SenderStopBranch == {"ctl", "lock2", "check2", "unlock2", "reply"}

\* C6. Shutdown ordering: Close talks to the Dispatcher (and the Dispatcher
\* has a stop request in hand) only after Close has observed ACKNOWLEDGED from
\* the Intake worker, which has returned; Close closes the socket only after
\* it has observed ACKNOWLEDGED from both workers, which have both returned.
ShutdownOrdering ==
    /\ (mainPc \in {"c_ssend", "c_srecv"} \/ sendPc \in SenderStopBranch) =>
          ("recv" \in acked /\ recvPc = "stopped")
    /\ mainPc = "c_connclose" =>
          (acked = {"recv", "send"} /\ recvPc = "stopped" /\ sendPc = "stopped")
    /\ mainPc \in {"c_check", "c_qsend", "c_qrecv"} => acked = {}

\* The Dispatcher has received the stop request with a message still in the
\* backing queue, the Intake worker having acknowledged.
ShutdownOrderingWitness ==
    /\ sendPc = "ctl"
    /\ Len(queue) > 0
    /\ recvPc = "stopped"

\* C10. A worker answers ACKNOWLEDGED only to a CONTINUE_REQUEST and only if,
\* at its check, its pending work is empty (msgChan for the Intake worker, the
\* backing queue for the Dispatcher); if work remains it answers
\* CONTINUE_REQUEST and keeps running; a worker returns only by delivering
\* ACKNOWLEDGED.
WorkerAckDiscipline ==
    [][/\ (recvPc = "ctl" /\ recvPc' = "reply") =>
             /\ recvQuit = CONTINUE_REQUEST
             /\ recvQuit' = (IF Len(msgChan) = 0 THEN ACKNOWLEDGED ELSE CONTINUE_REQUEST)
       /\ (sendPc = "check2" /\ sendPc' = "unlock2") =>
             /\ sendQuit = CONTINUE_REQUEST
             /\ sendQuit' = (IF Len(queue) = 0 THEN ACKNOWLEDGED ELSE CONTINUE_REQUEST)
       /\ (recvPc = "reply" /\ recvPc' # recvPc) =>
             recvPc' = (IF recvQuit = ACKNOWLEDGED THEN "stopped" ELSE "select")
       /\ (sendPc = "reply" /\ sendPc' # sendPc) =>
             sendPc' = (IF sendQuit = ACKNOWLEDGED THEN "stopped" ELSE "lock")
       /\ (recvPc # "stopped" /\ recvPc' = "stopped") =>
             (recvPc = "reply" /\ recvQuit = ACKNOWLEDGED)
       /\ (sendPc # "stopped" /\ sendPc' = "stopped") =>
             (sendPc = "reply" /\ sendQuit = ACKNOWLEDGED)]_vars

\* The Intake worker answering "not yet" with a message in the intake channel.
WorkerAckDisciplineWitness ==
    /\ recvPc = "reply"
    /\ recvQuit = CONTINUE_REQUEST
    /\ Len(msgChan) > 0

\* Close is inside its handshakes on a client whose two workers are running.
ClosingLiveClient ==
    /\ mainPc \in {"c_qsend", "c_qrecv"}
    /\ recvPc # "stopped"
    /\ sendPc # "stopped"

\* C7. Close terminates: under fair scheduling a Close that has started its
\* handshake on a dialed client, whose Intake worker and Dispatcher are
\* running, observes ACKNOWLEDGED from the Intake worker, then from the
\* Dispatcher, and returns.
CloseTerminates ==
    /\ ClosingLiveClient ~> (mainPc \in {"c_ssend", "c_srecv"} /\ acked = {"recv"})
    /\ (mainPc \in {"c_ssend", "c_srecv"}) ~> (mainPc = "c_connclose" /\ acked = {"recv", "send"})
    /\ (mainPc = "c_connclose") ~> (mainPc = "idle" /\ closeRet \in {"ok", "err"})

\* The busy-retry in progress: Close is about to receive "not yet" from the
\* Dispatcher, which still has a message to send.
CloseTerminatesWitness ==
    /\ mainPc = "c_srecv"
    /\ sendPc = "reply"
    /\ sendQuit = CONTINUE_REQUEST
    /\ Len(queue) > 0

\* The message has passed QueueMsg's timestamp step.
Stamped(m) == m \in Range(accepted) \/ \E p \in Callers : callPc[p] = "send" /\ callMsg[p] = m

\* C8. Timestamp default: a message handed to QueueMsg without a Timestamp
\* has one when it enters the intake channel, no earlier than the start of
\* the QueueMsg call and no later than the moment the Dispatcher serializes
\* it; a message that came with a Timestamp keeps it.
TimestampDefault ==
    \A m \in Msgs :
        /\ (Stamped(m) /\ presetTs[m] = NoTime) =>
              /\ msgTs[m] # NoTime
              /\ callStart[m] <= msgTs[m]
              /\ serializedAt[m] # 0 => msgTs[m] <= serializedAt[m]
        /\ (m < nextMsg /\ presetTs[m] # NoTime) => msgTs[m] = presetTs[m]

\* A message without a Timestamp, stamped after the clock moved on from the
\* start of the call, and serialized later still; another that came stamped.
TimestampDefaultWitness ==
    \E m, n \in Msgs :
        /\ presetTs[m] = NoTime
        /\ callStart[m] < msgTs[m]
        /\ serializedAt[m] # 0
        /\ presetTs[n] # NoTime
        /\ serializedAt[n] # 0

\* The compression the compress query value param stands for, if any.
CompressionNamed(param, configured) ==
    IF param = "none" THEN COMP_NONE
    ELSE IF param = "zlib" THEN COMP_ZLIB
    ELSE IF param = "gzip" THEN COMP_GZIP
    ELSE configured

\* C9. In a Dial that gets as far as its compress switch (the URI parses and
\* its scheme is udp or tcp), a compress value of none, zlib or gzip
\* overrides the configured compression; any other value, or none, leaves it
\* unchanged.  The value never makes Dial fail: Dial succeeds iff the URI
\* parses, the scheme is supported, the socket is established and the
\* ChunkEncoder accepts the frame size.
DialCompressOverride ==
    [][(mainPc = "dial" /\ mainPc' = "idle") =>
          /\ (dialUri.parses /\ dialUri.scheme \in {"udp", "tcp"}) =>
                config'.Compression = CompressionNamed(dialUri.compress, config.Compression)
          /\ config'.ChunkSize = config.ChunkSize
          /\ dialRet' = "ok" <=>
                /\ dialUri.parses
                /\ dialUri.scheme \in {"udp", "tcp"}
                /\ dialUri.reachable
                /\ config.ChunkSize = DefaultChunkSize]_vars

\* A successful first Dial with an unrecognized compress value on a client
\* configured for zlib: the workers run and zlib is still configured.
DialCompressOverrideWitness ==
    /\ dialRet = "ok"
    /\ mainPc = "idle"
    /\ recvPc = "select"
    /\ dialParam = "lz4"
    /\ config.Compression = COMP_ZLIB
    /\ nDials = 1

\* C11 as stated. When Close on a dialed client has finished both handshakes
\* and is about to return, the intake channel holds no message, the backing
\* queue is empty and the Dispatcher holds no popped-but-unwritten message.
CloseLeavesNothingBehind ==
    mainPc = "c_connclose" =>
        /\ msgChan = << >>
        /\ queue = << >>
        /\ Range(popped) \subseteq Dispatched

\* C11, amended. When Close on a dialed client has finished both handshakes
\* and is about to return, both workers have returned, the backing queue is
\* empty, neither worker holds a message, and the intake channel holds no
\* message whose QueueMsg call had completed when Close was invoked: what it
\* holds was sent by a QueueMsg call running concurrently with Close.
CloseLeavesOnlyLateMessages ==
    mainPc = "c_connclose" =>
        /\ recvPc = "stopped" /\ sendPc = "stopped"
        /\ queue = << >>
        /\ recvMsg = NoMsg
        /\ Range(popped) \subseteq Dispatched
        /\ Range(msgChan) \cap closeSnap = {}

\* Close is about to return after one message queued before it was written,
\* while the intake channel holds a message sent during the Close.
CloseLeavesOnlyLateMessagesWitness ==
    /\ mainPc = "c_connclose"
    /\ closeSnap # {}
    /\ closeSnap \subseteq Range(written)
    /\ msgChan # << >>

\* C12. A Dial that fails, at whichever step, starts no worker and leaves the
\* client inert with no connection, so that the next Close takes its early
\* return instead of waiting on a worker that does not exist.
DialFailureLeavesInert ==
    [][(mainPc = "dial" /\ dialRet' = "err") =>
          /\ conn' = Nil
          /\ recvPc' = "stopped" /\ sendPc' = "stopped"]_vars

\* The positions in chnkLog of the requests op made for message m.
Events(m, op) == {i \in 1..Len(chnkLog) : chnkLog[i].msg = m /\ chnkLog[i].op = op}

\* The messages whose frames the transport rejected.
FlushFailed == {chnkLog[i].msg : i \in {j \in 1..Len(chnkLog) : ~chnkLog[j].ok}}

\* The messages whose dispatch met an error.
Failed == dropped \cup FlushFailed

\* How often m occurs in seq.
Count(seq, m) == Cardinality({i \in 1..Len(seq) : seq[i] = m})

\* The Dispatcher is working on the message in sendMsg.
Dispatching == sendPc \in {"unlock_pop", "json"} \cup WritePcs

\* C13. A message whose serialization or transport write failed is dropped:
\* it was popped once, is in neither the intake channel nor the backing queue
\* again, is not tried a second time (no request reaches the ChunkEncoder for
\* a message that failed to serialize, one Flush for a message whose write
\* failed); the failing step leaves the Dispatcher at the top of its loop
\* without the queue lock; and the Dispatcher keeps popping in enqueue order.
ErrorsDropAndContinue ==
    /\ [](\A m \in Failed :
             /\ Count(popped, m) = 1
             /\ m \notin Range(queue) /\ m \notin Range(msgChan) /\ recvMsg # m
             /\ ~(Dispatching /\ sendMsg = m)
             /\ m \in dropped =>
                   /\ m \notin Range(written)
                   /\ \A op \in {"write", "close", "flush"} : Events(m, op) = {}
             /\ m \in FlushFailed =>
                   /\ Count(written, m) = 1
                   /\ Cardinality(Events(m, "flush")) = 1)
    /\ [][Failed' # Failed => sendPc' = "lock" /\ queueMutex' # "send"]_vars
    /\ [](sendPc = "lock" => queueMutex # "send")
    /\ []IsPrefix(popped, accepted)

\* The transport rejected the first message popped and the Dispatcher has
\* gone on to write the second.
ErrorsDropAndContinueWitness ==
    /\ Len(popped) = 2
    /\ popped[1] \in FlushFailed
    /\ popped[2] \in Range(written) \ Failed

\* The request the ChunkEncoder received just before its i-th (none if i = 1).
Before(i) == IF i > 1 THEN chnkLog[i - 1] ELSE ChnkEvent("none", NoMsg, TRUE)

\* C14. Flush is called on the ChunkEncoder exactly once per message handed
\* to writeMsg, as the last request made for that message: directly after
\* the Close of the compressed stream on the gzip and zlib paths, directly
\* after the raw Write on the path without compression.  Bytes of a message
\* reach the ChunkEncoder only at the start of the log or directly after the
\* Flush of the message before.
FlushOncePerMessage ==
    /\ \A m \in Msgs :
          /\ Cardinality(Events(m, "flush")) = Count(written, m)
          /\ Cardinality(Events(m, "flush")) <= 1
          /\ Cardinality(Events(m, "write")) <= 1
    /\ \A i \in 1..Len(chnkLog) :
          LET e == chnkLog[i]
              compressed == config.Compression \in {COMP_GZIP, COMP_ZLIB}
          IN CASE e.op = "write" -> Before(i).op \in {"none", "flush"}
               [] e.op = "close" -> /\ compressed
                                    /\ Before(i).op = "write"
                                    /\ Before(i).msg = e.msg
               [] e.op = "flush" -> /\ Before(i).msg = e.msg
                                    /\ Before(i).op =
                                          IF compressed THEN "close" ELSE "write"

\* Two messages dispatched on the zlib path, each written, closed and flushed.
FlushOncePerMessageWitness ==
    /\ config.Compression = COMP_ZLIB
    /\ Len(written) = 2
    /\ Len(chnkLog) = 6

\* The positions of writeMsg at which it holds a writer taken from a pool.
HoldingPcs == {"compress", "close", "reset", "put"}

\* C20. Compressor pool checkout is exclusive and balanced: a writer is
\* checked out only between the Get and the Put of one writeMsg call, and
\* while checked out it is not in the pool; it is written, closed, reset and
\* only then put back, so every idle writer of a pool is reset; no writer is
\* checked out between messages; only the pool of the configured compression
\* is used, and without compression neither pool is touched.
PoolCheckoutBalanced ==
    /\ heldComp # NoComp <=> sendPc \in HoldingPcs
    /\ sendPc \in HoldingPcs =>
          heldComp = CASE sendPc = "compress" -> "ready"
                       [] sendPc = "close" -> "written"
                       [] sendPc = "reset" -> "closed"
                       [] sendPc = "put" -> "ready"
    /\ \A pool \in {gz, zz} :
          /\ Len(pool) + (IF heldComp # NoComp THEN 1 ELSE 0) <= 1
          /\ \A i \in 1..Len(pool) : pool[i] = "ready"
    /\ config.Compression # COMP_GZIP => gz = NewPool
    /\ config.Compression # COMP_ZLIB => zz = NewPool
    /\ config.Compression = COMP_NONE => heldComp = NoComp

\* The second message on the gzip path is being compressed by the writer the
\* first message put back, the pool being empty meanwhile.
PoolCheckoutBalancedWitness ==
    /\ config.Compression = COMP_GZIP
    /\ Len(written) = 1
    /\ sendPc = "close"
    /\ heldComp = "written"
    /\ gz = << >>

\* The positions at which each worker is between its Lock and its Unlock.
RecvCritical == {"append", "unlock"}
SendCritical == {"check", "unlock_pop", "unlock_idle", "check2", "unlock2"}

\* C15. Lock discipline of the backing queue: a worker holds the queue lock
\* exactly between a Lock and the next Unlock of its own, so the two are never
\* in their critical sections together; the backing queue changes only by the
\* append of the Intake worker or the pop of the Dispatcher, each made while
\* holding the lock, and the Dispatcher reads its length only while holding
\* it; no worker holds the lock while it serializes, runs writeMsg, sleeps,
\* or sends or receives on a channel.
LockDiscipline ==
    /\ [](/\ queueMutex = "recv" <=> recvPc \in RecvCritical
          /\ queueMutex = "send" <=> sendPc \in SendCritical
          /\ ~(recvPc \in RecvCritical /\ sendPc \in SendCritical)
          /\ recvPc \in {"select", "ctl", "reply", "stopped"} => queueMutex # "recv"
          /\ sendPc \in {"json", "sleep", "select", "ctl", "reply", "stopped"}
                          \cup WritePcs => queueMutex # "send")
    /\ [][/\ queue' # queue =>
                \/ recvPc = "append" /\ queueMutex = "recv" /\ queueMutex' = "recv"
                \/ sendPc = "check" /\ queueMutex = "send" /\ queueMutex' = "send"
          /\ (sendPc \in {"check", "check2"} /\ sendPc' # sendPc) =>
                queueMutex = "send"]_vars

\* The Intake worker, holding a message, waits for the lock while the
\* Dispatcher is in its critical section about to pop.
LockDisciplineWitness ==
    /\ recvPc = "lock"
    /\ recvMsg # NoMsg
    /\ queueMutex = "send"
    /\ sendPc = "check"
    /\ Len(queue) > 0

\* In how many of the given places message m is (places: a sequence of
\* booleans).
PlacesHeld(places) == Cardinality({i \in 1..Len(places) : places[i]})

InChan(m) == m \in Range(msgChan)
InQueue(m) == m \in Range(queue)
\* queueReceiver has received m and not yet appended it.
WithIntake(m) == recvMsg = m /\ recvPc \in {"lock", "append"}
\* msgSender has popped m and is not done with it.
WithDispatcher(m) == sendMsg = m /\ Dispatching

\* No container holds m twice, m was not both dropped and written, and its
\* bytes were handed to the ChunkEncoder at most once.
NoDuplicate(m) ==
    /\ Count(msgChan, m) <= 1 /\ Count(queue, m) <= 1
    /\ Count(popped, m) <= 1 /\ Count(written, m) <= 1
    /\ ~(m \in dropped /\ m \in Range(written))
    /\ Cardinality(Events(m, "write")) <= 1

\* C16 as stated. Every message accepted by QueueMsg is in exactly one of:
\* the intake channel, the backing queue, the Dispatcher's hands, dispatched
\* (written or dropped); no message is handed to the transport twice.
MessageInOneOfFourPlaces ==
    \A m \in Range(accepted) :
        /\ PlacesHeld(<< InChan(m), InQueue(m), WithDispatcher(m),
                         m \in Dispatched >>) = 1
        /\ NoDuplicate(m)

\* C16, amended. Every message accepted by QueueMsg is in exactly one of:
\* the intake channel, the Intake worker's hands (received, not yet
\* appended), the backing queue, the Dispatcher's hands, dispatched (written
\* or dropped); no message is handed to the transport twice; and a message
\* not yet accepted is in none of these places.
MessageConservation ==
    /\ \A m \in Range(accepted) :
          /\ PlacesHeld(<< InChan(m), WithIntake(m), InQueue(m),
                           WithDispatcher(m), m \in Dispatched >>) = 1
          /\ NoDuplicate(m)
    /\ \A m \in Msgs \ Range(accepted) :
          ~(InChan(m) \/ WithIntake(m) \/ InQueue(m) \/ m \in Range(popped)
              \/ m \in Dispatched)
    /\ \A i, j \in 1..Len(accepted) : i # j => accepted[i] # accepted[j]

\* One message is in the Intake worker's hands, waiting for the lock, while
\* the Dispatcher serializes the other.
MessageConservationWitness ==
    /\ recvPc = "lock" /\ recvMsg # NoMsg
    /\ sendPc = "json" /\ sendMsg # recvMsg
    /\ Len(accepted) = 2

\* Neither worker goroutine exists.
NoWorker == recvPc = "stopped" /\ sendPc = "stopped"

\* C17. Single active worker pair, over alternating Dial and Close calls:
\* Dial executes its go statements only when no worker of an earlier Dial is
\* alive, so there is never more than one Intake worker or one Dispatcher;
\* when Close returns success both workers have returned; a worker that has
\* returned runs again only as a new goroutine of a later successful Dial;
\* and while no worker exists the backing queue, its lock and the
\* ChunkEncoder are untouched and the intake channel only receives sends.
SingleWorkerPair ==
    /\ [][(mainPc = "dial" /\ dialRet' = "ok") => NoWorker]_vars
    /\ [][(mainPc # "idle" /\ mainPc' = "idle" /\ closeRet' = "ok"
             /\ mainPc # "dial") => NoWorker']_vars
    /\ [][(NoWorker /\ ~NoWorker') => (mainPc = "dial" /\ dialRet' = "ok")]_vars
    /\ []((recvPc = "stopped") # (sendPc = "stopped") => mainPc # "idle")
    /\ [][NoWorker =>
             /\ queue' = queue /\ queueMutex' = queueMutex
             /\ IsPrefix(msgChan, msgChan')
             /\ chnkLog' = chnkLog /\ heldComp' = heldComp
             /\ popped' = popped /\ written' = written]_vars
    /\ [](NoWorker => ~ENABLED (queueReceiverMove \/ queueReceiverStop
                                  \/ msgSenderPoll \/ msgSenderDispatch
                                  \/ msgSenderStop))

\* A second Dial has started a new pair of workers after a Close returned
\* success, the first pair having written a message.
SingleWorkerPairWitness ==
    /\ nDials = 2
    /\ dialRet = "ok"
    /\ closeRet = "ok"
    /\ recvPc = "select"
    /\ sendPc = "lock"
    /\ Len(written) >= 1

\* msgSender moves to position pc.
SenderEnters(pc) == sendPc # pc /\ sendPc' = pc

\* The path by which msgSender comes to consult c.sendCtl: a check that found
\* the backing queue empty, the Unlock, the sleep, then the select; and a
\* stop request of Close is taken by msgSender at that select only.
ConsultsAfterIdleCheck ==
    /\ [][SenderEnters("ctl") => sendPc = "select" /\ mainPc = "c_ssend"]_vars
    /\ [][SenderEnters("select") => sendPc = "sleep"]_vars
    /\ [][SenderEnters("sleep") => sendPc = "unlock_idle"]_vars
    /\ [][SenderEnters("unlock_idle") =>
             sendPc = "check" /\ Len(queue) = 0 /\ queue' = queue]_vars
    /\ [][(sendPc = "check" /\ Len(queue) > 0 /\ sendPc' # sendPc) =>
             sendPc' = "unlock_pop" /\ queue' = Tail(queue)]_vars
    /\ [][(mainPc = "c_ssend" /\ mainPc' # mainPc) => sendPc = "select"]_vars

\* msgSender has decided to acknowledge, or is sending the acknowledgement.
SenderAcknowledging ==
    sendPc \in {"unlock2", "reply"} /\ sendQuit = ACKNOWLEDGED

\* C18 as stated. The Dispatcher consults the stop-request channel only in an
\* iteration in which it found the backing queue empty; while the backing
\* queue is non-empty a pending stop request stays unreceived; and the
\* Dispatcher never acknowledges with messages still queued.
StopUnreceivedWhileQueued ==
    /\ ConsultsAfterIdleCheck
    /\ [][SenderEnters("ctl") => Len(queue) = 0]_vars
    /\ [](SenderAcknowledging => Len(queue) = 0)

\* C18, amended. The Dispatcher consults the stop-request channel only in an
\* iteration in which its check found the backing queue empty, after the idle
\* sleep; an iteration that finds a message pops it instead.  The queue may
\* have been refilled between that check and the receive, so a stop request
\* can be received while a message is queued; the Dispatcher then looks at
\* the queue again under the lock and answers CONTINUE_REQUEST, and it never
\* acknowledges with messages still queued.
StopConsultedAfterIdleCheck ==
    /\ ConsultsAfterIdleCheck
    /\ [][(sendPc = "check2" /\ Len(queue) > 0 /\ sendPc' # sendPc) =>
             sendQuit' = CONTINUE_REQUEST]_vars
    /\ [](SenderAcknowledging => Len(queue) = 0)

\* The Dispatcher received a stop request with a message in the backing
\* queue, appended while it slept, and is answering CONTINUE_REQUEST.
StopConsultedAfterIdleCheckWitness ==
    /\ sendPc = "reply"
    /\ sendQuit = CONTINUE_REQUEST
    /\ Len(queue) > 0
    /\ mainPc = "c_srecv"

\* The message queueReceiver has received and not yet appended, if any.
IntakeHand == IF recvMsg # NoMsg /\ recvPc \in {"lock", "append"}
                 THEN << recvMsg >> ELSE << >>

====
